---- MODULE Spec2Model ----
(***************************************************************************)
(* A model of ckb-vm-pprof-converter (src/src/main.rs): folded stack lines *)
(* read from standard input are decoded into frames, their strings are     *)
(* interned into a string table, functions/locations/samples are built and *)
(* one pprof Profile is written to output.pprof.                           *)
(*                                                                         *)
(* Text is modelled as sequences of one-character strings, so that rfind,  *)
(* split, find and replace are computed as the code computes them.  A u64  *)
(* or i64 is its 64-bit pattern, held as four 16-bit limbs (least          *)
(* significant first), so that the casts and the multiplication of lines   *)
(* 127-128 keep their width.  Indices into Rust vectors are 0-based in the *)
(* records, as in the code; the TLA+ sequence holding a vector is 1-based. *)
(***************************************************************************)
EXTENDS Integers, Sequences, FiniteSets, TLC

\* ------------------------------------------------------------------ bounds

\* Most lines on standard input.
MaxLines == 2

\* The number of iteration orders of the HashSet that are explored, of all
\* the permutations of its elements.
MaxOrders == 8

\* ------------------------------------------------------------------- text

Range(s) == { s[i] : i \in 1..Len(s) }

\* Option<String>
None == [some |-> FALSE]

Some(x) == [some |-> TRUE, v |-> x]

\* "<Unknown>"
UNKNOWN == <<"<", "U", "n", "k", "n", "o", "w", "n", ">">>

SAMPLES == <<"s", "a", "m", "p", "l", "e", "s">>

COUNT == <<"c", "o", "u", "n", "t">>

CPU == <<"c", "p", "u">>

NANOSECONDS == <<"n", "a", "n", "o", "s", "e", "c", "o", "n", "d", "s">>

FREQUENCY == 1000000000

\* Symbol::name: self.name.clone().unwrap_or("<Unknown>")
SymbolName(symbol) == IF symbol.name.some THEN symbol.name.v ELSE UNKNOWN

\* Symbol::file: self.file.clone().unwrap_or("<Unknown>")
SymbolFile(symbol) == IF symbol.file.some THEN symbol.file.v ELSE UNKNOWN

\* Whether pattern p occurs in s at (1-based) position i.
MatchAt(s, p, i) ==
    /\ i + Len(p) - 1 <= Len(s)
    /\ \A k \in 1..Len(p) : s[i + k - 1] = p[k]

\* str::find: the 0-based index of the first occurrence of p, or -1 (None).
Find(s, p) ==
    LET hits == { i \in 1..Len(s) : MatchAt(s, p, i) }
    IN  IF hits = {} THEN -1
        ELSE (CHOOSE i \in hits : \A j \in hits : i <= j) - 1

\* str::rfind: the 0-based index of the last occurrence of p, or -1 (None).
RFind(s, p) ==
    LET hits == { i \in 1..Len(s) : MatchAt(s, p, i) }
    IN  IF hits = {} THEN -1
        ELSE (CHOOSE i \in hits : \A j \in hits : i >= j) - 1

\* The Rust slice s[a..b] (0-based, b exclusive).
Slice(s, a, b) == SubSeq(s, a + 1, b)

\* str::split(p): the pieces between the non-overlapping occurrences of p,
\* found left to right; a text without p is one piece (the empty text too).
RECURSIVE Split(_, _)
Split(s, p) ==
    LET j == Find(s, p)
    IN  IF j < 0 THEN <<s>>
        ELSE <<Slice(s, 0, j)>> \o Split(Slice(s, j + Len(p), Len(s)), p)

\* str::replace of one character by another.
Replace(s, from, to) == [i \in 1..Len(s) |-> IF s[i] = from THEN to ELSE s[i]]

\* name.replace("<", "{").replace(">", "}")
normalize_function_name(name) == Replace(Replace(name, "<", "{"), ">", "}")

\* The stack left in textual order: line 58 forgotten.
ReverseForgotten(s) == s

\* Vec::reverse
Reverse(s) == [i \in 1..Len(s) |-> s[Len(s) + 1 - i]]

\* ------------------------------------------------------- 64-bit integers

\* The four 16-bit limbs of zero.
Zero64 == <<0, 0, 0, 0>>

\* x * m + carry over limbs, least significant first, for 0 <= m <= 32768:
\* the limbs of the product followed by the carry out of the last limb.
RECURSIVE MulLimbs(_, _, _)
MulLimbs(x, m, carry) ==
    IF x = <<>> THEN <<carry>>
    ELSE LET t == x[1] * m + carry
         IN  <<t % 65536>> \o MulLimbs(Tail(x), m, t \div 65536)

\* x + y + carry over limb sequences of one length: the limbs of the sum
\* followed by the carry out.
RECURSIVE AddLimbs(_, _, _)
AddLimbs(x, y, carry) ==
    IF x = <<>> THEN <<carry>>
    ELSE LET t == x[1] + y[1] + carry
         IN  <<t % 65536>> \o AddLimbs(Tail(x), Tail(y), t \div 65536)

\* The exact product of a 64-bit pattern, read as unsigned, and 0 <= n < 2^30:
\* six limbs.
MulWide(x, n) ==
    LET hi == MulLimbs(MulLimbs(x, n \div 32768, 0), 32768, 0)
        lo == MulLimbs(x, n % 32768, 0) \o <<0>>
    IN  SubSeq(AddLimbs(hi, lo, 0), 1, 6)

\* Two's complement negation of a 64-bit pattern.
Neg64(x) ==
    SubSeq(AddLimbs([i \in 1..4 |-> 65535 - x[i]], <<1, 0, 0, 0>>, 0), 1, 4)

\* The sign bit of a 64-bit pattern read as i64.
IsNeg64(x) == x[4] >= 32768

\* The quotient of a 64-bit pattern, read as unsigned, by 0 < n < 2^30:
\* binary long division from bit i down to bit 0.
RECURSIVE DivBits(_, _, _, _, _)
DivBits(x, n, i, rem, q) ==
    IF i < 0 THEN q
    ELSE LET limb == (i \div 16) + 1
             bit  == (x[limb] \div (2 ^ (i % 16))) % 2
             r    == rem * 2 + bit
         IN  IF r >= n
             THEN DivBits(x, n, i - 1, r - n,
                          [q EXCEPT ![limb] = @ + 2 ^ (i % 16)])
             ELSE DivBits(x, n, i - 1, r, q)

DivU64(x, n) == DivBits(x, n, 63, 0, Zero64)

\* i64 * i64 for a multiplier 0 <= n < 2^30: the wrapped result (the low 64
\* bits of the product) and whether the exact product leaves the i64 range.
MulI64(x, n) ==
    LET mag  == IF IsNeg64(x) THEN Neg64(x) ELSE x
        wide == MulWide(mag, n)
        top  == wide[5] # 0 \/ wide[6] # 0
        low  == SubSeq(wide, 1, 4)
        over == IF IsNeg64(x)
                THEN top \/ (IsNeg64(low) /\ low # <<0, 0, 0, 32768>>)
                ELSE top \/ IsNeg64(low)
    IN  [value |-> SubSeq(MulWide(x, n), 1, 4), overflow |-> over]

\* i64 / i64 for a divisor 0 < n < 2^30: the quotient truncated toward zero.
DivI64(x, n) ==
    IF IsNeg64(x) THEN Neg64(DivU64(Neg64(x), n)) ELSE DivU64(x, n)

Digits == <<"0", "1", "2", "3", "4", "5", "6", "7", "8", "9">>

DigitValue(c) == (CHOOSE i \in 1..10 : Digits[i] = c) - 1

\* The digit loop of u64::from_str: result.checked_mul(10), then
\* checked_add(digit); an invalid digit or an overflow is an error.
RECURSIVE ParseDigits(_, _)
ParseDigits(s, acc) ==
    IF s = <<>> THEN [ok |-> TRUE, v |-> acc]
    ELSE IF s[1] \notin Range(Digits) THEN [ok |-> FALSE]
    ELSE LET t == MulLimbs(acc, 10, DigitValue(s[1]))
         IN  IF t[5] # 0 THEN [ok |-> FALSE]
             ELSE ParseDigits(Tail(s), SubSeq(t, 1, 4))

\* u64::from_str: the empty text and a lone sign are errors, one leading "+"
\* is accepted, "-" is no digit of an unsigned integer.
ParseU64(s) ==
    IF s = <<>> THEN [ok |-> FALSE]
    ELSE IF s[1] = "+" /\ Len(s) > 1 THEN ParseDigits(Tail(s), Zero64)
    ELSE ParseDigits(s, Zero64)

\* ---------------------------------------------------------------- decoder

\* Lines 47-56: one frame token is file:name, split at the first ":", or a
\* name without a file; the name is normalized, the file is not.
DecodeSymbol(s) ==
    LET j == Find(s, <<":">>)
    IN  IF j >= 0
        THEN [file |-> Some(Slice(s, 0, j)),
              name |-> Some(normalize_function_name(Slice(s, j + 1, Len(s))))]
        ELSE [name |-> Some(normalize_function_name(s)), file |-> None]

\* The read loop with unwrap_or_default() for expect("invalid cycle"): a
\* cycle count that does not parse counts as 0.
DecodeLineLenient(line) ==
    LET i == RFind(line, <<" ">>)
    IN  IF i < 0 THEN [ok |-> FALSE, panic |-> "no cycles available!"]
        ELSE LET tokens == Split(Slice(line, 0, i), <<";", " ">>)
                 stack  == Reverse([k \in 1..Len(tokens) |-> DecodeSymbol(tokens[k])])
                 cycles == ParseU64(Slice(line, i + 1, Len(line)))
             IN  [ok |-> TRUE,
                  frame |-> [stack |-> stack,
                             cycles |-> IF cycles.ok THEN cycles.v ELSE Zero64]]

\* Lines 43-61: the body of the read loop for one line.  The result is the
\* Frame, or the message of the expect() that panics.
DecodeLine(line) ==
    LET i == RFind(line, <<" ">>)
    IN  IF i < 0 THEN [ok |-> FALSE, panic |-> "no cycles available!"]
        ELSE LET tokens == Split(Slice(line, 0, i), <<";", " ">>)
                 stack  == Reverse([k \in 1..Len(tokens) |-> DecodeSymbol(tokens[k])])
                 cycles == ParseU64(Slice(line, i + 1, Len(line)))
             IN  IF ~cycles.ok THEN [ok |-> FALSE, panic |-> "invalid cycle"]
                 ELSE [ok |-> TRUE,
                       frame |-> [stack |-> stack, cycles |-> cycles.v]]

\* --------------------------------------------------------------- interner

\* Lines 64-75: the names and files of every symbol of every frame, and the
\* four labels.
DedupStr(fs) ==
    UNION { UNION { {SymbolName(fs[i].stack[j]), SymbolFile(fs[i].stack[j])} :
                    j \in 1..Len(fs[i].stack) } : i \in 1..Len(fs) }
    \cup {SAMPLES, COUNT, CPU, NANOSECONDS}

\* One enumeration of a finite set.
RECURSIVE Enumerate(_)
Enumerate(S) ==
    IF S = {} THEN <<>>
    ELSE LET x == CHOOSE y \in S : TRUE IN <<x>> \o Enumerate(S \ {x})

\* The sequence q without its element at i.
Without(q, i) == SubSeq(q, 1, i - 1) \o SubSeq(q, i + 1, Len(q))

\* The k-th permutation of q: k, written with the digits d1 < Len(q),
\* d2 < Len(q) - 1, ... (d1 the least significant), picks the element at
\* d1 + 1, then the one at d2 + 1 of those left, and so on.  The numbers below
\* Len(q)! give every permutation once.
RECURSIVE Permutation(_, _)
Permutation(q, k) ==
    IF q = <<>> THEN <<>>
    ELSE LET d == k % Len(q)
         IN  <<q[d + 1]>> \o Permutation(Without(q, d + 1), k \div Len(q))

\* HashSet::into_iter: the set in an order the code does not control.  The
\* orders explored are the first MaxOrders permutations of Enumerate(S).
IterationOrders(S) == { Permutation(Enumerate(S), k) : k \in 0..(MaxOrders - 1) }

\* The string table without the empty string put first.
StrTblWithoutEmpty(order) == order

\* Lines 77-79: the string table is "" followed by the set in its order.
StrTbl(order) == <<<<>>>> \o order

\* The index counted from 1 instead of 0.
StringsFromOne(tbl) ==
    [s \in Range(tbl) |->
        CHOOSE i \in 1..Len(tbl) :
            tbl[i] = s /\ \A j \in 1..Len(tbl) : tbl[j] = s => j <= i]

\* Lines 81-84: HashMap::insert in index order, so that a string at several
\* indices keeps the last of them.
Strings(tbl) ==
    [s \in Range(tbl) |->
        (CHOOSE i \in 1..Len(tbl) :
            tbl[i] = s /\ \A j \in 1..Len(tbl) : tbl[j] = s => j <= i) - 1]

\* ------------------------------------------------- functions and locations

\* The tables of lines 86-89 and 91 before any symbol is resolved.
EmptyTables == [fn_tbl |-> <<>>, loc_tbl |-> <<>>, functions |-> <<>>,
                locs |-> <<>>, ok |-> TRUE]

\* HashMap keyed by name, as the function from the names inserted so far.
MapInsert(m, k, v) == [x \in DOMAIN m \cup {k} |-> IF x = k THEN v ELSE m[x]]

\* Lines 99-106: the Function record of a symbol seen for the first time.
NewFunction(function_id, smap, symbol) ==
    [id |-> function_id,
     name |-> smap[SymbolName(symbol)],
     system_name |-> smap[SymbolName(symbol)],
     filename |-> smap[SymbolFile(symbol)]]

\* The Location numbered by its index in loc_tbl instead of the function id.
NewLocationByIndex(function_id) ==
    [id |-> function_id - 1,
     line |-> <<[function_id |-> function_id, line |-> 0]>>]

\* Lines 108-117: the Location record made with the Function.
NewLocation(function_id) ==
    [id |-> function_id, line |-> <<[function_id |-> function_id, line |-> 0]>>]

\* The registry keyed by name and file.
FunctionKeyWithFile(symbol) == <<SymbolName(symbol), SymbolFile(symbol)>>

\* Line 94: the registry is keyed by the symbol's name alone.
FunctionKey(symbol) == SymbolName(symbol)

\* The inner loop with the file of a registered function overwritten by each
\* later symbol of its name.
ResolveSymbolLastFile(t, smap, symbol) ==
    LET key == FunctionKey(symbol)
    IN  IF key \in DOMAIN t.functions
        THEN [t EXCEPT !.locs = Append(@, t.functions[key]),
                       !.fn_tbl[t.functions[key]].filename = smap[SymbolFile(symbol)]]
        ELSE LET function_id == Len(t.fn_tbl) + 1
             IN  [t EXCEPT
                    !.functions = MapInsert(@, key, function_id),
                    !.fn_tbl = Append(@, NewFunction(function_id, smap, symbol)),
                    !.loc_tbl = Append(@, NewLocation(function_id)),
                    !.locs = Append(@, function_id)]

\* Lines 93-122: the body of the inner loop for one symbol.  Indexing the
\* HashMap strings with a missing key panics (ok becomes FALSE).
ResolveSymbol(t, smap, symbol) ==
    LET key == FunctionKey(symbol)
    IN  IF key \in DOMAIN t.functions
        THEN [t EXCEPT !.locs = Append(@, t.functions[key])]
        ELSE IF SymbolName(symbol) \notin DOMAIN smap
                \/ SymbolFile(symbol) \notin DOMAIN smap
        THEN [t EXCEPT !.ok = FALSE]
        ELSE LET function_id == Len(t.fn_tbl) + 1
             IN  [t EXCEPT
                    !.functions = MapInsert(@, key, function_id),
                    !.fn_tbl = Append(@, NewFunction(function_id, smap, symbol)),
                    !.loc_tbl = Append(@, NewLocation(function_id)),
                    !.locs = Append(@, function_id)]

\* ----------------------------------------------------------------- samples

\* Line 127: *cycles as i64, the same 64 bits.
AsI64(cycles) == cycles

\* Line 128: *cycles as i64 * 1_000_000_000 / FREQUENCY as i64.  The
\* multiplication panics when overflow checks are compiled in and wraps when
\* they are not.
Nanoseconds(cycles) ==
    LET product == MulI64(AsI64(cycles), 1000000000)
    IN  [value |-> DivI64(product.value, FREQUENCY), overflow |-> product.overflow]

\* Lines 124-132.
NewSample(location_id, cycles) ==
    [location_id |-> location_id,
     value |-> <<AsI64(cycles), Nanoseconds(cycles).value>>]

\* --------------------------------------------------------------- assembler

\* The value type with the indices the labels would have if the string table
\* kept the order of insertion.
ValueTypeFixed(smap, type, unit) ==
    IF type = SAMPLES THEN [field_type |-> 1, unit |-> 2]
    ELSE [field_type |-> 3, unit |-> 4]

\* Lines 135-144.
ValueType(smap, type, unit) == [field_type |-> smap[type], unit |-> smap[unit]]

\* Lines 145-154.
AssembleProfile(smp, tbl, smap, fns, lcs) ==
    [sample_type |-> <<ValueType(smap, SAMPLES, COUNT),
                       ValueType(smap, CPU, NANOSECONDS)>>,
     sample |-> smp,
     string_table |-> tbl,
     function |-> fns,
     location |-> lcs,
     period_type |-> ValueType(smap, CPU, NANOSECONDS),
     period |-> 1000000000 \div FREQUENCY]

\* ------------------------------------------------------------------ input

\* " 5": the stack description is empty
LineEmptyStack ==
    <<" ", "5">>

\* ":foo; a.c: 1": a token with an empty file and one with an empty name
LineEmptyParts ==
    <<":", "f", "o", "o", ";", " ", "a", ".", "c", ":", " ", "1">>

\* "a.c:foo; x 1" (scenario E)
LineE1 ==
    <<"a", ".", "c", ":", "f", "o", "o", ";", " ", "x", " ", "1">>

\* "b.c:foo; y 1" (scenario E)
LineE2 ==
    <<"b", ".", "c", ":", "f", "o", "o", ";", " ", "y", " ", "1">>

\* "main; foo; bar 5" (scenario A)
LineA ==
    <<"m", "a", "i", "n", ";", " ", "f", "o", "o", ";", " ", "b", "a", "r",
      " ", "5">>

\* "foo<T>; bar 3" (scenario B)
LineB ==
    <<"f", "o", "o", "<", "T", ">", ";", " ", "b", "a", "r", " ", "3">>

\* "foo; a.c:foo; foo<T> 2": one name with and without a file, and the name
\* scenario B normalizes to
LineTwice ==
    <<"f", "o", "o", ";", " ", "a", ".", "c", ":", "f", "o", "o", ";", " ",
      "f", "o", "o", "<", "T", ">", " ", "2">>

\* "<Unknown>:cpu 4": a file that is the sentinel and a name that is a label
LineLabels ==
    <<"<", "U", "n", "k", "n", "o", "w", "n", ">", ":", "c", "p", "u", " ",
      "4">>

\* "onlyaframe" (scenario D): no space
LineNoSpace ==
    <<"o", "n", "l", "y", "a", "f", "r", "a", "m", "e">>

\* "foo x": the text after the last space is no number
LineBadCycles ==
    <<"f", "o", "o", " ", "x">>

\* "x; y": the last space is the one of a separator
LineNoCount ==
    <<"x", ";", " ", "y">>

\* The well-formed lines standard input may hold.
GoodLines ==
    { LineEmptyStack, LineEmptyParts, LineE1, LineE2, LineA, LineB, LineTwice,
      LineLabels }

\* The malformed ones.
BadLines == { LineNoSpace, LineBadCycles, LineNoCount }

Lines == GoodLines \cup BadLines

\* Cycle counts around the limits of the 64-bit arithmetic of lines 59 and
\* 127-128: the largest count whose nanoseconds fit an i64 and the next one,
\* the largest i64 and the next one, the largest u64 and the next one.
CyclesZero ==
    <<"0">>

CyclesPlus ==
    <<"+", "7">>

CyclesFits ==
    <<"9", "2", "2", "3", "3", "7", "2", "0", "3", "6">>

CyclesOverflows ==
    <<"9", "2", "2", "3", "3", "7", "2", "0", "3", "7">>

CyclesI64Max ==
    <<"9", "2", "2", "3", "3", "7", "2", "0", "3", "6", "8", "5", "4",
    "7", "7", "5", "8", "0", "7">>

CyclesI64MaxPlus1 ==
    <<"9", "2", "2", "3", "3", "7", "2", "0", "3", "6", "8", "5", "4",
    "7", "7", "5", "8", "0", "8">>

CyclesU64Max ==
    <<"1", "8", "4", "4", "6", "7", "4", "4", "0", "7", "3", "7", "0",
    "9", "5", "5", "1", "6", "1", "5">>

CyclesU64MaxPlus1 ==
    <<"1", "8", "4", "4", "6", "7", "4", "4", "0", "7", "3", "7", "0",
    "9", "5", "5", "1", "6", "1", "6">>

CyclesMinus ==
    <<"-", "1">>

CycleTexts ==
    { CyclesZero, CyclesPlus, CyclesFits, CyclesOverflows, CyclesI64Max,
      CyclesI64MaxPlus1, CyclesU64Max, CyclesU64MaxPlus1, CyclesMinus, <<>> }

\* The lines "foo <cycles>" of every cycle text.
CycleLines == { <<"f", "o", "o", " ">> \o c : c \in CycleTexts }

\* The sequences over S of length 0..n.
SeqsUpTo(S, n) == UNION { [1..k -> S] : k \in 0..n }

\* ------------------------------------------------------------------ state

VARIABLES
    stdin,            \* the lines of standard input
    overflow_checks,  \* whether the build panics on integer overflow
    pc,               \* "read", "samples", "done", "panicked", "failed"
    panic,            \* the message of the panic, or ""
    frames,           \* Vec<Frame> (line 39)
    str_tbl,          \* Vec<String> (line 78)
    strings,          \* HashMap<String, usize> (line 81)
    tables,           \* fn_tbl, loc_tbl, functions, locs (lines 87-91)
    samples,          \* Vec<Sample> (line 86)
    output            \* output.pprof: None, or Some(the Profile written)

vars == <<stdin, overflow_checks, pc, panic, frames, str_tbl, strings, tables,
          samples, output>>

Start(input) ==
    /\ stdin = input
    /\ overflow_checks \in BOOLEAN
    /\ pc = "read"
    /\ panic = ""
    /\ frames = <<>>
    /\ str_tbl = <<>>
    /\ strings = <<>>
    /\ tables = EmptyTables
    /\ samples = <<>>
    /\ output = None

Init == \E input \in SeqsUpTo(Lines, MaxLines) : Start(input)

\* Standard input holds lines that differ in their cycle counts only.
InitCycles == \E input \in SeqsUpTo(CycleLines, MaxLines) : Start(input)

\* Lines 41-62: one iteration of the read loop.
ReadLine ==
    /\ pc = "read"
    /\ Len(frames) < Len(stdin)
    /\ LET r == DecodeLine(stdin[Len(frames) + 1])
       IN  IF r.ok
           THEN /\ frames' = Append(frames, r.frame)
                /\ UNCHANGED <<pc, panic>>
           ELSE /\ pc' = "panicked"
                /\ panic' = r.panic
                /\ UNCHANGED frames
    /\ UNCHANGED <<stdin, overflow_checks, str_tbl, strings, tables, samples, output>>

\* Lines 64-84, at the end of input: the string table and its index.
BuildStringTable ==
    /\ pc = "read"
    /\ Len(frames) = Len(stdin)
    /\ \E order \in IterationOrders(DedupStr(frames)) :
          /\ str_tbl' = StrTbl(order)
          /\ strings' = Strings(StrTbl(order))
    /\ pc' = "samples"
    /\ UNCHANGED <<stdin, overflow_checks, panic, frames, tables, samples, output>>

\* The frame the outer loop of line 90 is at (one sample is pushed per frame).
CurrentFrame == frames[Len(samples) + 1]

\* Lines 92-123: one iteration of the inner loop.
ResolveNext ==
    /\ pc = "samples"
    /\ Len(samples) < Len(frames)
    /\ Len(tables.locs) < Len(CurrentFrame.stack)
    /\ LET t == ResolveSymbol(tables, strings, CurrentFrame.stack[Len(tables.locs) + 1])
       IN  IF t.ok
           THEN /\ tables' = t
                /\ UNCHANGED <<pc, panic>>
           ELSE /\ pc' = "panicked"
                /\ panic' = "key not found"
                /\ UNCHANGED tables
    /\ UNCHANGED <<stdin, overflow_checks, frames, str_tbl, strings, samples, output>>

\* Lines 124-133: the end of one iteration of the outer loop.
PushSample ==
    /\ pc = "samples"
    /\ Len(samples) < Len(frames)
    /\ Len(tables.locs) = Len(CurrentFrame.stack)
    /\ IF overflow_checks /\ Nanoseconds(CurrentFrame.cycles).overflow
       THEN /\ pc' = "panicked"
            /\ panic' = "attempt to multiply with overflow"
            /\ UNCHANGED <<tables, samples>>
       ELSE /\ samples' = Append(samples, NewSample(tables.locs, CurrentFrame.cycles))
            /\ tables' = [tables EXCEPT !.locs = <<>>]
            /\ UNCHANGED <<pc, panic>>
    /\ UNCHANGED <<stdin, overflow_checks, frames, str_tbl, strings, output>>

\* Whether indexing strings by the four labels (lines 136-142) succeeds.
LabelsInterned == {SAMPLES, COUNT, CPU, NANOSECONDS} \subseteq DOMAIN strings

\* Lines 135-156: the Profile is assembled, serialized and written.
WriteOutput ==
    /\ pc = "samples"
    /\ Len(samples) = Len(frames)
    /\ IF LabelsInterned
       THEN /\ output' = Some(AssembleProfile(samples, str_tbl, strings,
                                              tables.fn_tbl, tables.loc_tbl))
            /\ pc' = "done"
            /\ UNCHANGED panic
       ELSE /\ pc' = "panicked"
            /\ panic' = "key not found"
            /\ UNCHANGED output
    /\ UNCHANGED <<stdin, overflow_checks, frames, str_tbl, strings, tables, samples>>

\* Line 156: std::fs::write returns an error, which main returns.
WriteFails ==
    /\ pc = "samples"
    /\ Len(samples) = Len(frames)
    /\ LabelsInterned
    /\ pc' = "failed"
    /\ UNCHANGED <<stdin, overflow_checks, panic, frames, str_tbl, strings, tables,
                   samples, output>>

Next ==
    \/ ReadLine
    \/ BuildStringTable
    \/ ResolveNext
    \/ PushSample
    \/ WriteOutput
    \/ WriteFails

Spec == Init /\ [][Next]_vars

SpecCycles == InitCycles /\ [][Next]_vars

\* ------------------------------------------------- the pass as a function

fn_tbl == tables.fn_tbl

loc_tbl == tables.loc_tbl

functions == tables.functions

locs == tables.locs

\* Lines 92-123 for a whole stack.
RECURSIVE ResolveStack(_, _, _)
ResolveStack(t, smap, stack) ==
    IF stack = <<>> \/ ~t.ok THEN t
    ELSE ResolveStack(ResolveSymbol(t, smap, Head(stack)), smap, Tail(stack))

\* Lines 90-134 for all frames (the multiplication wrapping).
RECURSIVE BuildSamples(_, _, _, _)
BuildSamples(t, smap, fs, smp) ==
    IF fs = <<>> THEN [tables |-> t, samples |-> smp]
    ELSE LET u == ResolveStack([t EXCEPT !.locs = <<>>], smap, Head(fs).stack)
         IN  BuildSamples(u, smap, Tail(fs),
                          Append(smp, NewSample(u.locs, Head(fs).cycles)))

\* Lines 77-154 for the frames fs when the HashSet iterates in the given order.
Rerun(fs, order) ==
    LET tbl  == StrTbl(order)
        smap == Strings(tbl)
        r    == BuildSamples(EmptyTables, smap, fs, <<>>)
    IN  AssembleProfile(r.samples, tbl, smap, r.tables.fn_tbl, r.tables.loc_tbl)

\* ----------------------------------------------------------------- claims

\* The string at index i (0-based) of a string table; an index outside the
\* table resolves to no string.
StringAt(tbl, i) == IF i + 1 \in 1..Len(tbl) THEN Some(tbl[i + 1]) ELSE None

\* The positions <<i, j>> of the symbols of all frames, and their processing
\* order: frames in order, symbols in the stored order.
Positions ==
    UNION { { <<i, j>> : j \in 1..Len(frames[i].stack) } : i \in 1..Len(frames) }

Before(p, q) == p[1] < q[1] \/ (p[1] = q[1] /\ p[2] <= q[2])

SymbolAt(p) == frames[p[1]].stack[p[2]]

\* The first symbol, in processing order, whose name is n.
FirstNamed(n) ==
    SymbolAt(CHOOSE p \in Positions :
                /\ SymbolName(SymbolAt(p)) = n
                /\ \A q \in Positions : SymbolName(SymbolAt(q)) = n => Before(p, q))

AllNames == { SymbolName(SymbolAt(p)) : p \in Positions }

\* The canonical enumeration of the HashSet of the frames read.
IsEnumerationOrder == str_tbl = StrTbl(Enumerate(DedupStr(frames)))

\* C1: the emitted string table holds no string at two different indices.
C1_StringTableUnique ==
    output.some =>
        \A i, j \in 1..Len(output.v.string_table) :
            output.v.string_table[i] = output.v.string_table[j] => i = j

\* C2: whenever the run succeeds (empty input included), index 0 of the
\* emitted string table holds the empty string, whatever the order in which
\* the HashSet iterated.
C2_EmptyStringFirst ==
    output.some =>
        /\ Len(output.v.string_table) >= 1
        /\ output.v.string_table[1] = <<>>

\* C2's case: a profile written for empty input after the HashSet iterated in
\* another order than its enumeration.
C2_Witness ==
    /\ output.some
    /\ ~IsEnumerationOrder
    /\ stdin = <<>>

\* The exact value of cycles * 1_000_000_000 / FREQUENCY, six limbs.
ExactNanoseconds(cycles) ==
    DivBits(MulWide(cycles, 1000000000), FREQUENCY, 95, 0, <<0, 0, 0, 0, 0, 0>>)

\* Whether the i64 v is the non-negative integer with the limbs w.
I64Is(v, w) == ~IsNeg64(v) /\ v \o <<0, 0>> = SubSeq(w \o <<0, 0>>, 1, 6)

\* C3: in the emitted Profile the Sample of every line has exactly the two
\* values [c, c * 1_000_000_000 / FREQUENCY], c the cycle count the decoder
\* accepted for the line, for every c below 2^64.
C3_SampleValues ==
    output.some =>
        \A i \in 1..Len(output.v.sample) :
            /\ Len(output.v.sample[i].value) = 2
            /\ I64Is(output.v.sample[i].value[1], frames[i].cycles)
            /\ I64Is(output.v.sample[i].value[2], ExactNanoseconds(frames[i].cycles))

\* A line is malformed when it holds no space or when the text after its last
\* space is no u64.
Malformed(line) ==
    \/ " " \notin Range(line)
    \/ ~ParseU64(Slice(line, RFind(line, <<" ">>) + 1, Len(line))).ok

\* C4: a run over input with a malformed line never finishes and never
\* writes output.pprof; output.pprof is written only after every line of the
\* input has been decoded.
C4_AllOrNothing ==
    /\ (\E i \in 1..Len(stdin) : Malformed(stdin[i])) =>
            ~output.some /\ pc \notin {"done", "failed"}
    /\ output.some => pc = "done" /\ Len(frames) = Len(stdin)

\* C4's case: the run panicked on a malformed line that follows a decoded
\* one, and nothing was written.
C4_Witness ==
    /\ pc = "panicked"
    /\ Len(frames) = 1
    /\ Malformed(stdin[2])
    /\ ~output.some

\* C5: the emitted Profile holds as many Function records as there are
\* distinct (normalized) symbol names in all frames.
C5_FunctionCount ==
    output.some => Len(output.v.function) = Cardinality(AllNames)

\* C5's case: a profile written for frames in which some name occurs at two
\* positions with different files.
C5_Witness ==
    /\ output.some
    /\ \E p, q \in Positions :
          /\ SymbolName(SymbolAt(p)) = SymbolName(SymbolAt(q))
          /\ SymbolFile(SymbolAt(p)) # SymbolFile(SymbolAt(q))

\* C6: at every point, no two Function records have one name, and the
\* filename of each resolves to the file of the first symbol with its name in
\* processing order ("<Unknown>" when that symbol has no file).
C6_FirstFileWins ==
    /\ \A k \in 1..Len(fn_tbl) :
          /\ StringAt(str_tbl, fn_tbl[k].name).some
          /\ StringAt(str_tbl, fn_tbl[k].name).v \in AllNames
          /\ StringAt(str_tbl, fn_tbl[k].filename) =
                Some(SymbolFile(FirstNamed(StringAt(str_tbl, fn_tbl[k].name).v)))
    /\ \A k, l \in 1..Len(fn_tbl) :
          StringAt(str_tbl, fn_tbl[k].name) = StringAt(str_tbl, fn_tbl[l].name)
              => k = l

\* C6's case: lines "a.c:foo; x 1" and "b.c:foo; y 1" were turned into a
\* profile of three functions.
C6_Witness ==
    /\ output.some
    /\ stdin = <<LineE1, LineE2>>
    /\ Len(fn_tbl) = 3

\* The name the frame token tok stands for: the text after its first ":",
\* normalized.
TokenName(tok) ==
    normalize_function_name(Slice(tok, Find(tok, <<":">>) + 1, Len(tok)))

\* The frame tokens of a line, in textual order.
TokensOf(line) == Split(Slice(line, 0, RFind(line, <<" ">>)), <<";", " ">>)

\* The name of the Function with the given id in the emitted Profile.
NameOfId(profile, id) ==
    StringAt(profile.string_table,
             (CHOOSE f \in Range(profile.function) : f.id = id).name)

\* C7: the emitted Profile has one Sample per input line, in input order;
\* its location ids name the frame tokens of the line, last token first;
\* Function ids are 1, 2, 3, ... in order of first occurrence.  For the one
\* line "main; foo; bar 5": bar, foo, main with ids 1, 2, 3 and one Sample
\* with location ids [1, 2, 3] and values [5, 5].
C7_SamplesFollowLines ==
    output.some =>
        LET p == output.v
        IN  /\ Len(p.sample) = Len(stdin)
            /\ \A i \in 1..Len(stdin) :
                  LET toks == TokensOf(stdin[i])
                      ids  == p.sample[i].location_id
                  IN  /\ Len(ids) = Len(toks)
                      /\ \A j \in 1..Len(ids) :
                            /\ \E f \in Range(p.function) : f.id = ids[j]
                            /\ NameOfId(p, ids[j]) =
                                  Some(TokenName(toks[Len(toks) + 1 - j]))
            /\ \A k \in 1..Len(p.function) : p.function[k].id = k
            /\ \A k, l \in 1..Len(p.function) :
                  k < l =>
                    \E q \in Positions :
                        /\ Some(SymbolName(SymbolAt(q))) = NameOfId(p, k)
                        /\ \A r \in Positions :
                              Some(SymbolName(SymbolAt(r))) = NameOfId(p, l)
                                  => Before(q, r) /\ q # r
            /\ stdin = <<LineA>> =>
                  /\ [k \in 1..Len(p.function) |-> NameOfId(p, k)] =
                        << Some(<<"b", "a", "r">>), Some(<<"f", "o", "o">>),
                           Some(<<"m", "a", "i", "n">>) >>
                  /\ p.sample = << [location_id |-> <<1, 2, 3>>,
                                    value |-> << <<5, 0, 0, 0>>, <<5, 0, 0, 0>> >>] >>

\* C7's case: the profile of the single line "main; foo; bar 5".
C7_Witness ==
    /\ output.some
    /\ stdin = <<LineA>>

\* A Profile with every string index replaced by the string it refers to in
\* the Profile's own string table.
ResolvedType(p, vt) ==
    [field_type |-> StringAt(p.string_table, vt.field_type),
     unit |-> StringAt(p.string_table, vt.unit)]

Resolved(p) ==
    [sample_type |-> [k \in 1..Len(p.sample_type) |-> ResolvedType(p, p.sample_type[k])],
     sample |-> p.sample,
     function |-> [k \in 1..Len(p.function) |->
                     [id |-> p.function[k].id,
                      name |-> StringAt(p.string_table, p.function[k].name),
                      system_name |-> StringAt(p.string_table, p.function[k].system_name),
                      filename |-> StringAt(p.string_table, p.function[k].filename)]],
     location |-> p.location,
     period_type |-> ResolvedType(p, p.period_type),
     period |-> p.period]

\* C8: the Profile written is, with its string indices resolved, the Profile
\* the same frames give when the HashSet iterates in its enumeration order;
\* so any two runs over one input differ in the positions of strings only.
C8_OrderIndependent ==
    output.some =>
        Resolved(output.v) = Resolved(Rerun(frames, Enumerate(DedupStr(frames))))

\* C8's case: a profile with functions and samples written after the HashSet
\* iterated in another order than its enumeration.
C8_Witness ==
    /\ output.some
    /\ ~IsEnumerationOrder
    /\ Len(fn_tbl) >= 3
    /\ Len(samples) = 2

\* C9: at every point the function table and the location table have one
\* length, and the Location at each position has the id of the Function at
\* that position and exactly one line, of that function id and line 0.
C9_TablesPaired ==
    /\ Len(fn_tbl) = Len(loc_tbl)
    /\ \A k \in 1..Len(fn_tbl) :
          /\ loc_tbl[k].id = fn_tbl[k].id
          /\ Len(loc_tbl[k].line) = 1
          /\ loc_tbl[k].line[1].function_id = fn_tbl[k].id
          /\ loc_tbl[k].line[1].line = 0

\* C9's case: the tables while samples are built, with several entries.
C9_Witness ==
    /\ pc = "samples"
    /\ Len(fn_tbl) >= 4
    /\ Len(samples) = 1

\* C10: at every point of the pass and in the emitted Profile, Function ids
\* are distinct; every location id of a Sample (and of the stack being
\* resolved) is the id, between 1 and the table length, of exactly one
\* Location; the name and system name of the Function registered under a
\* name resolve to that name and its filename resolves to the file of a
\* symbol of that name; the value types resolve to their labels; and no
\* lookup in strings has panicked.
C10_ReferentialIntegrity ==
    /\ \A k, l \in 1..Len(fn_tbl) : fn_tbl[k].id = fn_tbl[l].id => k = l
    /\ \A ids \in {locs} \cup { samples[i].location_id : i \in 1..Len(samples) } :
          \A j \in 1..Len(ids) :
              /\ ids[j] \in 1..Len(loc_tbl)
              /\ Cardinality({ k \in 1..Len(loc_tbl) : loc_tbl[k].id = ids[j] }) = 1
    /\ \A n \in DOMAIN functions :
          /\ functions[n] \in 1..Len(fn_tbl)
          /\ StringAt(str_tbl, fn_tbl[functions[n]].name) = Some(n)
          /\ StringAt(str_tbl, fn_tbl[functions[n]].system_name) = Some(n)
          /\ \E p \in Positions :
                /\ SymbolName(SymbolAt(p)) = n
                /\ StringAt(str_tbl, fn_tbl[functions[n]].filename) =
                      Some(SymbolFile(SymbolAt(p)))
    /\ Len(fn_tbl) = Cardinality(DOMAIN functions)
    /\ output.some =>
          /\ output.v.function = fn_tbl /\ output.v.location = loc_tbl
          /\ output.v.sample = samples /\ output.v.string_table = str_tbl
          /\ [k \in 1..2 |-> ResolvedType(output.v, output.v.sample_type[k])] =
                << [field_type |-> Some(SAMPLES), unit |-> Some(COUNT)],
                   [field_type |-> Some(CPU), unit |-> Some(NANOSECONDS)] >>
          /\ ResolvedType(output.v, output.v.period_type) =
                [field_type |-> Some(CPU), unit |-> Some(NANOSECONDS)]
    /\ panic # "key not found"

\* C10's case: a profile written for a string table that holds the empty
\* string twice, after the HashSet iterated in another order than its
\* enumeration.
C10_Witness ==
    /\ output.some
    /\ ~IsEnumerationOrder
    /\ stdin = <<LineEmptyParts, LineTwice>>

====
